---- MODULE Spec2Model ----
(***************************************************************************)
(* School-Management-System: the SQLite store declared by the DDL of       *)
(* managementSchema.py (tables, UNIQUE / PRIMARY KEY constraints, foreign  *)
(* keys with ON DELETE CASCADE / RESTRICT, BEFORE INSERT triggers) and the *)
(* operations main.py (FastAPI handlers) and managementCrud.py issue       *)
(* against it.  Every handler is one SQL statement committed by get_conn / *)
(* connect, except create_submission of main.py, which reads the current   *)
(* maximum attempt_number and inserts in two statements; handlers run in   *)
(* a thread pool, so those two statements interleave with other callers.   *)
(***************************************************************************)
EXTENDS Integers, FiniteSets, Sequences, TLC

\* ---------------------------------------------------------------- bounds
\* Spec: the whole schema, from the empty database
MaxUsers == 2
MaxClasses == 2
MaxAssignments == 1
MaxSubmissions == 1
MaxAttachments == 1
MaxAnnouncements == 1
\* SpecSub: the Submissions table of a seeded class
SubMaxSubmissions == 2
SubProcs == 2
MaxAttempt == 2
\* SpecRace: concurrent callers of main.py create_submission
NumCallers == 3

UserIds == 1..MaxUsers
ClassIds == 1..MaxClasses
AssignmentIds == 1..MaxAssignments
AttachmentIds == 1..MaxAttachments
AnnouncementIds == 1..MaxAnnouncements
\* the worker threads that serve POST /submissions
Procs == 1..NumCallers

\* Users.role CHECK (role IN ('teacher','student','admin'))
Roles == {"teacher", "student", "admin"}
\* SQL NULL (an absent optional field, a subquery with no row)
NULL == "NULL"
\* the values a caller supplies for Submissions.grade / Submissions.feedback
Grades == {NULL, "90"}
Feedbacks == {NULL, "fb"}

VARIABLES
    Users,                  \* rows [id, role]
    Classes,                \* rows [id]
    TeacherClass,           \* rows [teacher_id, class_id]
    Enrollments,            \* rows [user_id, class_id]
    Assignments,            \* rows [id, class_id]
    Submissions,            \* rows [id, assignment_id, student_id, attempt_number, grade, feedback]
    SubmissionAttachments,  \* rows [id, submission_id]
    Announcements,          \* rows [id, class_id, author_id]
    pc,                     \* per worker of main.py create_submission: "idle" | "insert" | "done"
    call,                   \* per worker: the payload, the last_attempt it read, its outcome
    resp                    \* the last completed operation and its outcome

store == <<Users, Classes, TeacherClass, Enrollments, Assignments, Submissions,
           SubmissionAttachments, Announcements>>
procs == <<pc, call>>
vars == <<Users, Classes, TeacherClass, Enrollments, Assignments, Submissions,
          SubmissionAttachments, Announcements, pc, call, resp>>

\* ---------------------------------------------------------------- helpers
SetMax(S) == IF S = {} THEN 0 ELSE CHOOSE m \in S : \A x \in S : x <= m

Ids(T) == {r.id : r \in T}

\* INTEGER PRIMARY KEY without AUTOINCREMENT: the new rowid is max(rowid)+1
lastrowid(T) == SetMax(Ids(T)) + 1

UserExists(u) == u \in Ids(Users)
ClassExists(c) == c \in Ids(Classes)
AssignmentExists(a) == a \in Ids(Assignments)
SubmissionExists(s) == s \in Ids(Submissions)

\* (SELECT role FROM Users WHERE id = u): NULL when there is no such row
RoleOf(u) == IF UserExists(u) THEN (CHOOSE x \in Users : x.id = u).role ELSE NULL

NoCall == [assignment_id |-> 0, student_id |-> 0, last_attempt |-> 0, kind |-> "none"]
\* cur.rowcount after a DELETE: sqlite3_changes() counts the rows the statement
\* itself deleted; rows removed by foreign key actions are not counted
rowcount(rows) == Cardinality(rows)

\* the outcome of an operation; rowcount is what the DELETE handlers read from
\* the cursor (main.py tests it against 0, managementCrud.py returns it), -1
\* for the operations that read none or raised
RespCount(op, kind, n) == [op |-> op, kind |-> kind, rowcount |-> n]
Resp(op, kind) == RespCount(op, kind, -1)


\* ---------------------------------------------------------------- triggers
\* Each operator is the trigger's WHEN clause: TRUE when the trigger raises
\* ABORT.  A comparison with NULL is not true, so a role trigger does not
\* fire for a user id that names no row.
trg_teacherclass_teacher_role(teacher_id) ==
    RoleOf(teacher_id) # NULL /\ RoleOf(teacher_id) # "teacher"

trg_enrollments_student_role(user_id) ==
    RoleOf(user_id) # NULL /\ RoleOf(user_id) # "student"

trg_submissions_student_role(student_id) ==
    RoleOf(student_id) # NULL /\ RoleOf(student_id) # "student"

trg_submissions_student_enrolled(assignment_id, student_id) ==
    ~ \E a \in Assignments, e \in Enrollments :
          a.id = assignment_id /\ e.class_id = a.class_id /\ e.user_id = student_id

\* mutant: the trigger looks for any class the author teaches
trg_announcements_author_any_class(class_id, author_id) ==
    ~ \E tc \in TeacherClass : tc.teacher_id = author_id

trg_announcements_author_is_assigned_teacher(class_id, author_id) ==
    ~ \E tc \in TeacherClass : tc.class_id = class_id /\ tc.teacher_id = author_id

\* ---------------------------------------------------------------- INSERT outcomes
\* The outcomes an INSERT can have: BEFORE INSERT triggers run first, then the
\* row's UNIQUE / PRIMARY KEY checks, and the foreign keys are checked when the
\* statement ends.  SQLite leaves the firing order of two triggers on the same
\* event undefined, so when both Submissions triggers would fire either
\* message can be the one raised.
\* mutant: TeacherClass declared without PRIMARY KEY (teacher_id, class_id)
InsertTeacherClass_NoPrimaryKey(teacher_id, class_id) ==
    IF trg_teacherclass_teacher_role(teacher_id) THEN {"RoleViolation"}
    ELSE IF ~UserExists(teacher_id) \/ ~ClassExists(class_id) THEN {"ForeignKey"}
    ELSE {"ok"}

InsertTeacherClass(teacher_id, class_id) ==
    IF trg_teacherclass_teacher_role(teacher_id) THEN {"RoleViolation"}
    ELSE IF [teacher_id |-> teacher_id, class_id |-> class_id] \in TeacherClass
         THEN {"DuplicateKey"}
    ELSE IF ~UserExists(teacher_id) \/ ~ClassExists(class_id) THEN {"ForeignKey"}
    ELSE {"ok"}

InsertEnrollments(user_id, class_id) ==
    IF trg_enrollments_student_role(user_id) THEN {"RoleViolation"}
    ELSE IF [user_id |-> user_id, class_id |-> class_id] \in Enrollments
         THEN {"DuplicateKey"}
    ELSE IF ~UserExists(user_id) \/ ~ClassExists(class_id) THEN {"ForeignKey"}
    ELSE {"ok"}

\* mutant: the table declared without its UNIQUE constraint
SubmissionsUnique_NoConstraint(assignment_id, student_id, attempt_number) == TRUE

\* UNIQUE (assignment_id, student_id, attempt_number)
SubmissionsUnique(assignment_id, student_id, attempt_number) ==
    ~ \E x \in Submissions : /\ x.assignment_id = assignment_id
                             /\ x.student_id = student_id
                             /\ x.attempt_number = attempt_number

InsertSubmissions(assignment_id, student_id, attempt_number) ==
    LET role == trg_submissions_student_role(student_id)
        enrolled == trg_submissions_student_enrolled(assignment_id, student_id)
    IN  IF role \/ enrolled
        THEN (IF role THEN {"RoleViolation"} ELSE {})
             \cup (IF enrolled THEN {"PrerequisiteViolation"} ELSE {})
        ELSE IF ~SubmissionsUnique(assignment_id, student_id, attempt_number)
             THEN {"DuplicateKey"}
        ELSE IF ~AssignmentExists(assignment_id) \/ ~UserExists(student_id)
             THEN {"ForeignKey"}
        ELSE {"ok"}

InsertAnnouncements(class_id, author_id) ==
    IF trg_announcements_author_is_assigned_teacher(class_id, author_id)
    THEN {"PrerequisiteViolation"}
    ELSE IF ~ClassExists(class_id) \/ ~UserExists(author_id) THEN {"ForeignKey"}
    ELSE {"ok"}

\* ---------------------------------------------------------------- DELETE with its cascades
\* FOREIGN KEY (submission_id) REFERENCES Submissions(id) ON DELETE CASCADE
DeleteFromSubmissions(rows) ==
    /\ Submissions' = Submissions \ rows
    /\ SubmissionAttachments' =
           {x \in SubmissionAttachments : x.submission_id \notin Ids(rows)}

\* mutant: Submissions.assignment_id declared without ON DELETE CASCADE and
\* not enforced
DeleteFromAssignments_NoCascade(rows) ==
    /\ Assignments' = Assignments \ rows
    /\ UNCHANGED <<Submissions, SubmissionAttachments>>

\* FOREIGN KEY (assignment_id) REFERENCES Assignments(id) ON DELETE CASCADE
DeleteFromAssignments(rows) ==
    /\ Assignments' = Assignments \ rows
    /\ DeleteFromSubmissions({x \in Submissions : x.assignment_id \in Ids(rows)})

\* mutant: Announcements.class_id declared without ON DELETE CASCADE and not
\* enforced
DeleteFromClasses_KeepsAnnouncements(class_id) ==
    /\ Classes' = {c \in Classes : c.id # class_id}
    /\ TeacherClass' = {x \in TeacherClass : x.class_id # class_id}
    /\ Enrollments' = {x \in Enrollments : x.class_id # class_id}
    /\ Announcements' = Announcements
    /\ DeleteFromAssignments({x \in Assignments : x.class_id = class_id})

\* the FOREIGN KEY (class_id) REFERENCES Classes(id) ON DELETE CASCADE clauses of
\* TeacherClass, Enrollments, Assignments and Announcements
DeleteFromClasses(class_id) ==
    /\ Classes' = {c \in Classes : c.id # class_id}
    /\ TeacherClass' = {x \in TeacherClass : x.class_id # class_id}
    /\ Enrollments' = {x \in Enrollments : x.class_id # class_id}
    /\ Announcements' = {x \in Announcements : x.class_id # class_id}
    /\ DeleteFromAssignments({x \in Assignments : x.class_id = class_id})

\* mutant: Announcements.author_id declared without ON DELETE RESTRICT
AuthorRestrict_Off(user_id) == FALSE

\* FOREIGN KEY (author_id) REFERENCES Users(id) ON DELETE RESTRICT
AuthorRestrict(user_id) == \E x \in Announcements : x.author_id = user_id

\* mutant: the connection opened without PRAGMA foreign_keys = ON
DeleteFromUsers_ForeignKeysOff(user_id) ==
    /\ Users' = {u \in Users : u.id # user_id}
    /\ UNCHANGED <<TeacherClass, Enrollments, Submissions, SubmissionAttachments>>

\* the ON DELETE CASCADE clauses on Users(id) of TeacherClass, Enrollments and
\* Submissions
DeleteFromUsers(user_id) ==
    /\ Users' = {u \in Users : u.id # user_id}
    /\ TeacherClass' = {x \in TeacherClass : x.teacher_id # user_id}
    /\ Enrollments' = {x \in Enrollments : x.user_id # user_id}
    /\ DeleteFromSubmissions({x \in Submissions : x.student_id = user_id})

\* ---------------------------------------------------------------- initial state
\* create_db: the DDL creates every table empty; no request is in flight
Init ==
    /\ Users = {} /\ Classes = {} /\ TeacherClass = {} /\ Enrollments = {}
    /\ Assignments = {} /\ Submissions = {} /\ SubmissionAttachments = {}
    /\ Announcements = {}
    /\ pc = [p \in Procs |-> "idle"]
    /\ call = [p \in Procs |-> NoCall]
    /\ resp = Resp("none", "none")

\* ---------------------------------------------------------------- Users
create_user(role) ==
    /\ lastrowid(Users) <= MaxUsers
    /\ Users' = Users \cup {[id |-> lastrowid(Users), role |-> role]}
    /\ resp' = Resp("create_user", "ok")
    /\ UNCHANGED <<Classes, TeacherClass, Enrollments, Assignments, Submissions,
                   SubmissionAttachments, Announcements, procs>>

\* PATCH /users/{user_id} with the role field supplied
update_user(user_id, role) ==
    /\ Users' = {IF u.id = user_id THEN [u EXCEPT !.role = role] ELSE u : u \in Users}
    /\ resp' = Resp("update_user", IF UserExists(user_id) THEN "ok" ELSE "NotFound")
    /\ UNCHANGED <<Classes, TeacherClass, Enrollments, Assignments, Submissions,
                   SubmissionAttachments, Announcements, procs>>

\* mutant: the cascades to the join tables are committed before the RESTRICT
\* failure is noticed
delete_user_PartialCascade(user_id) ==
    /\ IF ~UserExists(user_id)
       THEN /\ resp' = RespCount("delete_user", "NotFound", 0)
            /\ UNCHANGED <<Users, TeacherClass, Enrollments, Submissions,
                           SubmissionAttachments>>
       ELSE IF AuthorRestrict(user_id)
       THEN /\ resp' = Resp("delete_user", "ReferentialBlock")
            /\ TeacherClass' = {x \in TeacherClass : x.teacher_id # user_id}
            /\ Enrollments' = {x \in Enrollments : x.user_id # user_id}
            /\ UNCHANGED <<Users, Submissions, SubmissionAttachments>>
       ELSE /\ resp' = RespCount("delete_user", "ok", rowcount({u \in Users : u.id = user_id}))
            /\ DeleteFromUsers(user_id)
    /\ UNCHANGED <<Classes, Assignments, Announcements, procs>>

delete_user(user_id) ==
    /\ IF ~UserExists(user_id)
       THEN /\ resp' = RespCount("delete_user", "NotFound", 0)
            /\ UNCHANGED <<Users, TeacherClass, Enrollments, Submissions,
                           SubmissionAttachments>>
       ELSE IF AuthorRestrict(user_id)
       THEN /\ resp' = Resp("delete_user", "ReferentialBlock")
            /\ UNCHANGED <<Users, TeacherClass, Enrollments, Submissions,
                           SubmissionAttachments>>
       ELSE /\ resp' = RespCount("delete_user", "ok", rowcount({u \in Users : u.id = user_id}))
            /\ DeleteFromUsers(user_id)
    /\ UNCHANGED <<Classes, Assignments, Announcements, procs>>

\* ---------------------------------------------------------------- Classes
create_class ==
    /\ lastrowid(Classes) <= MaxClasses
    /\ Classes' = Classes \cup {[id |-> lastrowid(Classes)]}
    /\ resp' = Resp("create_class", "ok")
    /\ UNCHANGED <<Users, TeacherClass, Enrollments, Assignments, Submissions,
                   SubmissionAttachments, Announcements, procs>>

delete_class(class_id) ==
    /\ IF ~ClassExists(class_id)
       THEN /\ resp' = RespCount("delete_class", "NotFound", 0)
            /\ UNCHANGED <<Classes, TeacherClass, Enrollments, Assignments,
                           Submissions, SubmissionAttachments, Announcements>>
       ELSE /\ resp' = RespCount("delete_class", "ok", rowcount({c \in Classes : c.id = class_id}))
            /\ DeleteFromClasses(class_id)
    /\ UNCHANGED <<Users, procs>>

\* ---------------------------------------------------------------- Enrollments
enroll(user_id, class_id) ==
    /\ \E kind \in InsertEnrollments(user_id, class_id) :
          /\ Enrollments' = IF kind = "ok"
                            THEN Enrollments \cup {[user_id |-> user_id, class_id |-> class_id]}
                            ELSE Enrollments
          /\ resp' = Resp("enroll", kind)
    /\ UNCHANGED <<Users, Classes, TeacherClass, Assignments, Submissions,
                   SubmissionAttachments, Announcements, procs>>

unenroll(user_id, class_id) ==
    LET row == [user_id |-> user_id, class_id |-> class_id]
    IN  /\ Enrollments' = Enrollments \ {row}
        /\ resp' = RespCount("unenroll", IF row \in Enrollments THEN "ok" ELSE "NotFound",
                             rowcount(Enrollments \cap {row}))
        /\ UNCHANGED <<Users, Classes, TeacherClass, Assignments, Submissions,
                       SubmissionAttachments, Announcements, procs>>

\* ---------------------------------------------------------------- TeacherClass
teacherassigne(teacher_id, class_id) ==
    /\ \E kind \in InsertTeacherClass(teacher_id, class_id) :
          /\ TeacherClass' = IF kind = "ok"
                             THEN TeacherClass \cup {[teacher_id |-> teacher_id, class_id |-> class_id]}
                             ELSE TeacherClass
          /\ resp' = Resp("teacherassigne", kind)
    /\ UNCHANGED <<Users, Classes, Enrollments, Assignments, Submissions,
                   SubmissionAttachments, Announcements, procs>>

\* DELETE /teacherassigned (the second handler main.py names unenroll)
unenroll_teacherassigned(teacher_id, class_id) ==
    LET row == [teacher_id |-> teacher_id, class_id |-> class_id]
    IN  /\ TeacherClass' = TeacherClass \ {row}
        /\ resp' = RespCount("unenroll_teacherassigned",
                             IF row \in TeacherClass THEN "ok" ELSE "NotFound",
                             rowcount(TeacherClass \cap {row}))
        /\ UNCHANGED <<Users, Classes, Enrollments, Assignments, Submissions,
                       SubmissionAttachments, Announcements, procs>>

\* ---------------------------------------------------------------- Assignments
create_assignment(class_id) ==
    /\ lastrowid(Assignments) <= MaxAssignments
    /\ IF ClassExists(class_id)
       THEN /\ Assignments' = Assignments \cup
                    {[id |-> lastrowid(Assignments), class_id |-> class_id]}
            /\ resp' = Resp("create_assignment", "ok")
       ELSE /\ Assignments' = Assignments
            /\ resp' = Resp("create_assignment", "ForeignKey")
    /\ UNCHANGED <<Users, Classes, TeacherClass, Enrollments, Submissions,
                   SubmissionAttachments, Announcements, procs>>

delete_assignment(assignment_id) ==
    /\ IF ~AssignmentExists(assignment_id)
       THEN /\ resp' = RespCount("delete_assignment", "NotFound", 0)
            /\ UNCHANGED <<Assignments, Submissions, SubmissionAttachments>>
       ELSE /\ resp' = RespCount("delete_assignment", "ok", rowcount({x \in Assignments : x.id = assignment_id}))
            /\ DeleteFromAssignments({x \in Assignments : x.id = assignment_id})
    /\ UNCHANGED <<Users, Classes, TeacherClass, Enrollments, Announcements, procs>>

\* ---------------------------------------------------------------- Submissions
\* mutant: the SELECT without AND student_id=?
MaxAttemptNumber_AnyStudent(assignment_id, student_id) ==
    SetMax({x.attempt_number : x \in {y \in Submissions :
                y.assignment_id = assignment_id}})

\* SELECT COALESCE(MAX(attempt_number), 0) FROM Submissions
\*   WHERE assignment_id=? AND student_id=?
MaxAttemptNumber(assignment_id, student_id) ==
    SetMax({x.attempt_number : x \in {y \in Submissions :
                y.assignment_id = assignment_id /\ y.student_id = student_id}})

\* main.py create_submission, first statement: the SELECT runs outside any
\* transaction (sqlite3 opens one only before INSERT/UPDATE/DELETE), so other
\* callers' statements may commit before this caller's INSERT.
create_submission_read(p, assignment_id, student_id) ==
    /\ pc[p] = "idle"
    /\ pc' = [pc EXCEPT ![p] = "insert"]
    /\ call' = [call EXCEPT ![p] =
                   [assignment_id |-> assignment_id, student_id |-> student_id,
                    last_attempt |-> MaxAttemptNumber(assignment_id, student_id),
                    kind |-> "none"]]
    /\ UNCHANGED <<store, resp>>

\* new_attempt = last_attempt + 1
new_attempt(p) == call[p].last_attempt + 1

\* main.py create_submission, second statement and the commit: the INSERT; an
\* IntegrityError is answered with HTTP 409, with no retry.
create_submission_insert(p, grade, feedback) ==
    LET a == call[p].assignment_id
        s == call[p].student_id
        n == new_attempt(p)
    IN  /\ pc[p] = "insert"
        /\ \E kind \in InsertSubmissions(a, s, n) :
              /\ Submissions' =
                     IF kind = "ok"
                     THEN Submissions \cup
                              {[id |-> lastrowid(Submissions), assignment_id |-> a,
                                student_id |-> s, attempt_number |-> n,
                                grade |-> grade, feedback |-> feedback]}
                     ELSE Submissions
              /\ call' = [call EXCEPT ![p].kind = kind]
              /\ resp' = Resp("create_submission", kind)
        /\ pc' = [pc EXCEPT ![p] = "done"]
        /\ UNCHANGED <<Users, Classes, TeacherClass, Enrollments, Assignments,
                       SubmissionAttachments, Announcements>>

\* the handler has answered; its worker thread takes the next request
create_submission_return(p) ==
    /\ pc[p] = "done"
    /\ pc' = [pc EXCEPT ![p] = "idle"]
    /\ call' = [call EXCEPT ![p] = NoCall]
    /\ UNCHANGED <<store, resp>>

\* managementCrud.py create_submission: one INSERT with the caller's attempt_number
crud_create_submission(assignment_id, student_id, attempt_number, grade, feedback) ==
    /\ \E kind \in InsertSubmissions(assignment_id, student_id, attempt_number) :
          /\ Submissions' =
                 IF kind = "ok"
                 THEN Submissions \cup
                          {[id |-> lastrowid(Submissions), assignment_id |-> assignment_id,
                            student_id |-> student_id, attempt_number |-> attempt_number,
                            grade |-> grade, feedback |-> feedback]}
                 ELSE Submissions
          /\ resp' = Resp("crud_create_submission", kind)
    /\ UNCHANGED <<Users, Classes, TeacherClass, Enrollments, Assignments,
                   SubmissionAttachments, Announcements, procs>>

\* mutant: the SET clause is built without the grade field
update_submission_DropsGrade(submission_id, gset, grade, fset, feedback) ==
    /\ Submissions' = Submissions
    /\ resp' = Resp("update_submission",
                    IF ~gset /\ ~fset THEN "BadRequest"
                    ELSE IF SubmissionExists(submission_id) THEN "ok" ELSE "NotFound")
    /\ UNCHANGED <<Users, Classes, TeacherClass, Enrollments, Assignments,
                   SubmissionAttachments, Announcements, procs>>

\* PATCH /submissions/{id}: patch.dict(exclude_unset=True) holds the fields the
\* caller sent; gset / fset tell whether grade / feedback was sent
update_submission(submission_id, gset, grade, fset, feedback) ==
    /\ IF ~gset /\ ~fset
       THEN /\ Submissions' = Submissions
            /\ resp' = Resp("update_submission", "BadRequest")
       ELSE /\ Submissions' =
                   {IF x.id = submission_id
                    THEN [x EXCEPT !.grade = IF gset THEN grade ELSE @,
                                   !.feedback = IF fset THEN feedback ELSE @]
                    ELSE x : x \in Submissions}
            /\ resp' = Resp("update_submission", IF SubmissionExists(submission_id) THEN "ok" ELSE "NotFound")
    /\ UNCHANGED <<Users, Classes, TeacherClass, Enrollments, Assignments,
                   SubmissionAttachments, Announcements, procs>>

\* managementCrud.py grade_submission: UPDATE Submissions SET grade=?, feedback=?
\* and return cur.rowcount (0, and no exception, when no row has the id)
grade_submission(submission_id, grade, feedback) ==
    /\ Submissions' =
           {IF x.id = submission_id
            THEN [x EXCEPT !.grade = grade, !.feedback = feedback]
            ELSE x : x \in Submissions}
    /\ resp' = RespCount("grade_submission", "ok",
                         rowcount({x \in Submissions : x.id = submission_id}))
    /\ UNCHANGED <<Users, Classes, TeacherClass, Enrollments, Assignments,
                   SubmissionAttachments, Announcements, procs>>

delete_submission(submission_id) ==
    /\ IF ~SubmissionExists(submission_id)
       THEN /\ resp' = RespCount("delete_submission", "NotFound", 0)
            /\ UNCHANGED <<Submissions, SubmissionAttachments>>
       ELSE /\ resp' = RespCount("delete_submission", "ok", rowcount({x \in Submissions : x.id = submission_id}))
            /\ DeleteFromSubmissions({x \in Submissions : x.id = submission_id})
    /\ UNCHANGED <<Users, Classes, TeacherClass, Enrollments, Assignments,
                   Announcements, procs>>

\* ---------------------------------------------------------------- Attachments
create_attachment(submission_id) ==
    /\ lastrowid(SubmissionAttachments) <= MaxAttachments
    /\ IF SubmissionExists(submission_id)
       THEN /\ SubmissionAttachments' = SubmissionAttachments \cup
                    {[id |-> lastrowid(SubmissionAttachments),
                      submission_id |-> submission_id]}
            /\ resp' = Resp("create_attachment", "ok")
       ELSE /\ SubmissionAttachments' = SubmissionAttachments
            /\ resp' = Resp("create_attachment", "ForeignKey")
    /\ UNCHANGED <<Users, Classes, TeacherClass, Enrollments, Assignments, Submissions,
                   Announcements, procs>>

delete_attachment(attachment_id) ==
    /\ SubmissionAttachments' = {x \in SubmissionAttachments : x.id # attachment_id}
    /\ resp' = RespCount("delete_attachment",
                         IF attachment_id \in Ids(SubmissionAttachments) THEN "ok" ELSE "NotFound",
                         rowcount({x \in SubmissionAttachments : x.id = attachment_id}))
    /\ UNCHANGED <<Users, Classes, TeacherClass, Enrollments, Assignments, Submissions,
                   Announcements, procs>>

\* ---------------------------------------------------------------- Announcements
create_announcement(class_id, author_id) ==
    /\ lastrowid(Announcements) <= MaxAnnouncements
    /\ \E kind \in InsertAnnouncements(class_id, author_id) :
          /\ Announcements' =
                 IF kind = "ok"
                 THEN Announcements \cup
                          {[id |-> lastrowid(Announcements), class_id |-> class_id,
                            author_id |-> author_id]}
                 ELSE Announcements
          /\ resp' = Resp("create_announcement", kind)
    /\ UNCHANGED <<Users, Classes, TeacherClass, Enrollments, Assignments, Submissions,
                   SubmissionAttachments, procs>>

delete_announcement(announcement_id) ==
    /\ Announcements' = {x \in Announcements : x.id # announcement_id}
    /\ resp' = RespCount("delete_announcement",
                         IF announcement_id \in Ids(Announcements) THEN "ok" ELSE "NotFound",
                         rowcount({x \in Announcements : x.id = announcement_id}))
    /\ UNCHANGED <<Users, Classes, TeacherClass, Enrollments, Assignments, Submissions,
                   SubmissionAttachments, procs>>

\* ---------------------------------------------------------------- managementCrud.py, TeacherClass
\* INSERT INTO TeacherClasses(...): the schema has no table of that name
\* (it is TeacherClass), so the statement raises sqlite3.OperationalError
assign_teacher_to_class(teacher_id, class_id) ==
    /\ resp' = Resp("assign_teacher_to_class", "OperationalError")
    /\ UNCHANGED <<store, procs>>

\* DELETE FROM TeacherClasses ...: the same missing table
remove_teacher_from_class(teacher_id, class_id) ==
    /\ resp' = Resp("remove_teacher_from_class", "OperationalError")
    /\ UNCHANGED <<store, procs>>

\* ---------------------------------------------------------------- managementCrud.py, DELETE by id
\* The delete_* functions of managementCrud.py run the same DELETE as the
\* handlers of main.py and return cur.rowcount: for an id that names no row
\* they return 0 and raise nothing.
crud_delete_user(user_id) ==
    /\ IF AuthorRestrict(user_id)
       THEN /\ resp' = Resp("crud_delete_user", "ReferentialBlock")
            /\ UNCHANGED <<Users, TeacherClass, Enrollments, Submissions,
                           SubmissionAttachments>>
       ELSE /\ resp' = RespCount("crud_delete_user", "ok",
                                 rowcount({u \in Users : u.id = user_id}))
            /\ DeleteFromUsers(user_id)
    /\ UNCHANGED <<Classes, Assignments, Announcements, procs>>

crud_delete_class(class_id) ==
    /\ resp' = RespCount("crud_delete_class", "ok",
                         rowcount({c \in Classes : c.id = class_id}))
    /\ DeleteFromClasses(class_id)
    /\ UNCHANGED <<Users, procs>>

crud_delete_assignment(assignment_id) ==
    /\ resp' = RespCount("crud_delete_assignment", "ok",
                         rowcount({x \in Assignments : x.id = assignment_id}))
    /\ DeleteFromAssignments({x \in Assignments : x.id = assignment_id})
    /\ UNCHANGED <<Users, Classes, TeacherClass, Enrollments, Announcements, procs>>

crud_delete_submission(submission_id) ==
    /\ resp' = RespCount("crud_delete_submission", "ok",
                         rowcount({x \in Submissions : x.id = submission_id}))
    /\ DeleteFromSubmissions({x \in Submissions : x.id = submission_id})
    /\ UNCHANGED <<Users, Classes, TeacherClass, Enrollments, Assignments,
                   Announcements, procs>>

\* ---------------------------------------------------------------- specifications
\* room for one more Submissions row with rowid <= max, counting the rows the
\* workers ps are about to insert
SubmissionRoom(max, ps) ==
    SetMax(Ids(Submissions)) + Cardinality({p \in ps : pc[p] = "insert"}) < max

\* The whole schema from the empty database.  One worker serves
\* POST /submissions; submissions are created ungraded.
Next ==
    \/ \E role \in Roles : create_user(role)
    \/ \E u \in UserIds : delete_user(u)
    \/ create_class
    \/ \E c \in ClassIds : delete_class(c)
    \/ \E u \in UserIds, c \in ClassIds : enroll(u, c)
    \/ \E u \in UserIds, c \in ClassIds : unenroll(u, c)
    \/ \E t \in UserIds, c \in ClassIds : teacherassigne(t, c)
    \/ \E t \in UserIds, c \in ClassIds : unenroll_teacherassigned(t, c)
    \/ \E t \in UserIds, c \in ClassIds : assign_teacher_to_class(t, c)
    \/ \E t \in UserIds, c \in ClassIds : remove_teacher_from_class(t, c)
    \/ \E c \in ClassIds : create_assignment(c)
    \/ \E a \in AssignmentIds : delete_assignment(a)
    \/ /\ SubmissionRoom(MaxSubmissions, {1})
       /\ \E a \in AssignmentIds, s \in UserIds : create_submission_read(1, a, s)
    \/ create_submission_insert(1, NULL, NULL)
    \/ create_submission_return(1)
    \/ /\ SubmissionRoom(MaxSubmissions, {1})
       /\ \E a \in AssignmentIds, s \in UserIds : crud_create_submission(a, s, 1, NULL, NULL)
    \/ \E id \in 1..MaxSubmissions : delete_submission(id)
    \/ \E id \in 1..MaxSubmissions : create_attachment(id)
    \/ \E id \in AttachmentIds : delete_attachment(id)
    \/ \E c \in ClassIds, u \in UserIds : create_announcement(c, u)
    \/ \E id \in AnnouncementIds : delete_announcement(id)

Spec == Init /\ [][Next]_vars

\* A seeded class, a state Spec reaches: students 1 and 2, class 1 with
\* assignment 1, student 1 enrolled (datapopulate.py seeds the same shape).
InitSub ==
    /\ Users = {[id |-> 1, role |-> "student"], [id |-> 2, role |-> "student"]}
    /\ Classes = {[id |-> 1]}
    /\ TeacherClass = {}
    /\ Enrollments = {[user_id |-> 1, class_id |-> 1]}
    /\ Assignments = {[id |-> 1, class_id |-> 1]}
    /\ Submissions = {} /\ SubmissionAttachments = {} /\ Announcements = {}
    /\ pc = [p \in Procs |-> "idle"]
    /\ call = [p \in Procs |-> NoCall]
    /\ resp = Resp("none", "none")

\* The Submissions table under SubProcs workers of POST /submissions and the
\* other operations on submissions and enrollments.  A worker starts only
\* while the pair's attempt numbers are below MaxAttempt (a stale read followed
\* by deletes would otherwise count up without end); feedback stays unset.
NextSub ==
    \/ /\ SubmissionRoom(SubMaxSubmissions, 1..SubProcs)
       /\ \E p \in 1..SubProcs, s \in UserIds :
             MaxAttemptNumber(1, s) < MaxAttempt /\ create_submission_read(p, 1, s)
    \/ \E p \in 1..SubProcs, g \in Grades : create_submission_insert(p, g, NULL)
    \/ \E p \in 1..SubProcs : create_submission_return(p)
    \/ /\ SubmissionRoom(SubMaxSubmissions, 1..SubProcs)
       /\ \E s \in UserIds, n \in 1..MaxAttempt : crud_create_submission(1, s, n, NULL, NULL)
    \/ \E id \in 1..SubMaxSubmissions, gset \in BOOLEAN, g \in Grades :
          update_submission(id, gset, g, FALSE, NULL)
    \/ \E id \in 1..SubMaxSubmissions, g \in Grades \ {NULL} :
          grade_submission(id, g, NULL)
    \/ \E id \in 1..SubMaxSubmissions : delete_submission(id)
    \/ \E u \in UserIds : enroll(u, 1)
    \/ \E u \in UserIds : unenroll(u, 1)

SpecSub == InitSub /\ [][NextSub]_vars

\* Both students enrolled; every worker serves exactly one POST /submissions.
InitRace ==
    /\ Users = {[id |-> 1, role |-> "student"], [id |-> 2, role |-> "student"]}
    /\ Classes = {[id |-> 1]}
    /\ TeacherClass = {}
    /\ Enrollments = {[user_id |-> 1, class_id |-> 1], [user_id |-> 2, class_id |-> 1]}
    /\ Assignments = {[id |-> 1, class_id |-> 1]}
    /\ Submissions = {} /\ SubmissionAttachments = {} /\ Announcements = {}
    /\ pc = [p \in Procs |-> "idle"]
    /\ call = [p \in Procs |-> NoCall]
    /\ resp = Resp("none", "none")

NextRace ==
    \/ \E p \in Procs, s \in UserIds : create_submission_read(p, 1, s)
    \/ \E p \in Procs : create_submission_insert(p, NULL, NULL)

SpecRace == InitRace /\ [][NextRace]_vars

\* DELETE and UPDATE by id through both entry points, on the seeded class:
\* the handlers of main.py and the functions of managementCrud.py, with the
\* submissions managementCrud.py creates.
NextDelete ==
    \/ /\ SubmissionRoom(SubMaxSubmissions, {})
       /\ \E s \in UserIds, n \in 1..MaxAttempt : crud_create_submission(1, s, n, NULL, NULL)
    \/ \E u \in UserIds : delete_user(u)
    \/ \E c \in ClassIds : delete_class(c)
    \/ \E a \in AssignmentIds : delete_assignment(a)
    \/ \E id \in 1..SubMaxSubmissions : delete_submission(id)
    \/ \E id \in 1..SubMaxSubmissions, g \in Grades \ {NULL} :
          update_submission(id, TRUE, g, FALSE, NULL)
    \/ \E u \in UserIds : crud_delete_user(u)
    \/ \E c \in ClassIds : crud_delete_class(c)
    \/ \E a \in AssignmentIds : crud_delete_assignment(a)
    \/ \E id \in 1..SubMaxSubmissions : crud_delete_submission(id)
    \/ \E id \in 1..SubMaxSubmissions, g \in Grades \ {NULL} :
          grade_submission(id, g, NULL)

SpecDelete == InitSub /\ [][NextDelete]_vars

\* Users and the two join tables from the empty database: user creation, user
\* update with the role field, class creation, enrollment, teacher assignment.
NextRole ==
    \/ \E role \in Roles : create_user(role)
    \/ \E u \in UserIds, role \in Roles : update_user(u, role)
    \/ create_class
    \/ \E u \in UserIds, c \in ClassIds : enroll(u, c)
    \/ \E t \in UserIds, c \in ClassIds : teacherassigne(t, c)

SpecRole == Init /\ [][NextRole]_vars

\* Grades and feedback on the seeded class: submissions created with or
\* without them, then updated through PATCH /submissions/{id} and through
\* managementCrud.py grade_submission.
NextGrade ==
    \/ /\ SubmissionRoom(SubMaxSubmissions, {})
       /\ \E n \in 1..MaxAttempt, g \in Grades, f \in Feedbacks :
             crud_create_submission(1, 1, n, g, f)
    \/ \E id \in 1..SubMaxSubmissions, gset, fset \in BOOLEAN,
           g \in Grades, f \in Feedbacks :
          update_submission(id, gset, g, fset, f)
    \/ \E id \in 1..SubMaxSubmissions, g \in Grades \ {NULL}, f \in Feedbacks :
          grade_submission(id, g, f)
    \/ \E id \in 1..SubMaxSubmissions : delete_submission(id)

SpecGrade == InitSub /\ [][NextGrade]_vars

\* ---------------------------------------------------------------- claims
\* the attempt_numbers stored for a pair
AttemptsOf(a, s) ==
    {x.attempt_number : x \in {y \in Submissions : y.assignment_id = a /\ y.student_id = s}}

\* the workers whose request names the pair
CallersOf(a, s) ==
    {p \in Procs : call[p].assignment_id = a /\ call[p].student_id = s}

\* s has an Enrollment in the class that owns assignment a
EnrolledFor(a, s) ==
    \E asg \in Assignments :
        asg.id = a /\ [user_id |-> s, class_id |-> asg.class_id] \in Enrollments

Rejections == {"RoleViolation", "PrerequisiteViolation", "DuplicateKey", "ForeignKey",
               "NotFound", "ReferentialBlock", "OperationalError", "BadRequest"}

\* C1: when N create_submission calls for the same pair of an enrolled student
\* run concurrently and all have answered, all N were accepted and the stored
\* attempt_numbers of the pair are exactly 1..N.
C1_ConcurrentAttemptsDense ==
    (\A p \in Procs : pc[p] = "done") =>
        \A s \in UserIds :
            /\ \A p \in CallersOf(1, s) : call[p].kind = "ok"
            /\ AttemptsOf(1, s) = 1..Cardinality(CallersOf(1, s))

\* C2: a create_submission whose INSERT loses the race for an attempt_number
\* is not answered with the uniqueness conflict.
C2_NoConflictSurfaced ==
    \A p \in Procs : pc[p] = "done" => call[p].kind # "DuplicateKey"

\* C3: no two Submissions rows share (assignment_id, student_id, attempt_number).
C3_AttemptKeyUnique ==
    \A x, y \in Submissions :
        (/\ x.assignment_id = y.assignment_id
         /\ x.student_id = y.student_id
         /\ x.attempt_number = y.attempt_number) => x = y

\* C3 witness: an insert for a key that a stored row already has was just
\* refused.
C3_Witness ==
    /\ resp.kind = "DuplicateKey"
    /\ resp.op \in {"create_submission", "crud_create_submission"}
    /\ Submissions # {}

\* C4: for every pair the stored attempt_numbers are exactly 1..k for some k.
C4_AttemptsDense ==
    \A a \in AssignmentIds, s \in UserIds :
        AttemptsOf(a, s) = 1..Cardinality(AttemptsOf(a, s))

\* C5: create_submission (main.py) is accepted for every student enrolled in the
\* assignment's class, and for a student who is not enrolled it is refused
\* with PrerequisiteViolation and adds no row.
C5_EligibilityDecides ==
    [][\A p \in Procs :
          (pc[p] = "insert" /\ pc'[p] = "done" /\ RoleOf(call[p].student_id) = "student") =>
              IF EnrolledFor(call[p].assignment_id, call[p].student_id)
              THEN /\ call'[p].kind = "ok"
                   /\ Cardinality(Submissions') = Cardinality(Submissions) + 1
              ELSE /\ call'[p].kind = "PrerequisiteViolation"
                   /\ Submissions' = Submissions]_vars

\* C6: through either entry point, creating a TeacherClass row for a student or
\* admin, or an Enrollments row for a teacher or admin, is refused with
\* RoleViolation and adds no row; with the required role, an existing class and
\* no such row yet, the row is created.
C6_JoinRowsRequireRole ==
    [][\A u \in UserIds, c \in ClassIds :
          /\ (teacherassigne(u, c) \/ assign_teacher_to_class(u, c)) =>
                /\ RoleOf(u) \in {"student", "admin"} =>
                      resp'.kind = "RoleViolation" /\ TeacherClass' = TeacherClass
                /\ (/\ RoleOf(u) = "teacher" /\ ClassExists(c)
                    /\ [teacher_id |-> u, class_id |-> c] \notin TeacherClass) =>
                      [teacher_id |-> u, class_id |-> c] \in TeacherClass'
          /\ enroll(u, c) =>
                /\ RoleOf(u) \in {"teacher", "admin"} =>
                      resp'.kind = "RoleViolation" /\ Enrollments' = Enrollments
                /\ (/\ RoleOf(u) = "student" /\ ClassExists(c)
                    /\ [user_id |-> u, class_id |-> c] \notin Enrollments) =>
                      [user_id |-> u, class_id |-> c] \in Enrollments']_vars

\* C7: create_announcement is accepted only when the TeacherClass row
\* (author, class) exists; without it the call is refused with
\* PrerequisiteViolation and no Announcements row is added.
C7_AnnouncementNeedsTeacherClass ==
    [][\A c \in ClassIds, u \in UserIds :
          create_announcement(c, u) =>
              IF [teacher_id |-> u, class_id |-> c] \in TeacherClass
              THEN resp'.kind = "ok" /\ Cardinality(Announcements') = Cardinality(Announcements) + 1
              ELSE resp'.kind = "PrerequisiteViolation" /\ Announcements' = Announcements]_vars

\* C7 witness: an announcement has just been refused although a teacher is
\* assigned to one class (and to no other), both classes exist.
C7_Witness ==
    /\ resp = Resp("create_announcement", "PrerequisiteViolation")
    /\ Cardinality(TeacherClass) = 1
    /\ Cardinality(Classes) = 2
    /\ Announcements = {}

\* the Submissions rows of the Assignments rows as
SubsOf(as) == {x \in Submissions : x.assignment_id \in Ids(as)}
\* the SubmissionAttachments rows of the Submissions rows ss
AttsOf(ss) == {x \in SubmissionAttachments : x.submission_id \in Ids(ss)}

\* C8: a successful delete_class(c) removes exactly the Assignments of c, their
\* Submissions, those Submissions' attachments and the Enrollments and
\* TeacherClass rows of c; delete_assignment removes exactly its Submissions
\* and their attachments; delete_submission removes exactly its attachments.
C8_CascadeExact ==
    [][/\ \A c \in ClassIds :
             (delete_class(c) /\ ClassExists(c)) =>
                 LET as == {x \in Assignments : x.class_id = c}
                 IN  /\ resp'.kind = "ok"
                     /\ Assignments' = Assignments \ as
                     /\ Submissions' = Submissions \ SubsOf(as)
                     /\ SubmissionAttachments' = SubmissionAttachments \ AttsOf(SubsOf(as))
                     /\ Enrollments' = {x \in Enrollments : x.class_id # c}
                     /\ TeacherClass' = {x \in TeacherClass : x.class_id # c}
       /\ \A a \in AssignmentIds :
             (delete_assignment(a) /\ AssignmentExists(a)) =>
                 LET as == {x \in Assignments : x.id = a}
                 IN  /\ resp'.kind = "ok"
                     /\ Submissions' = Submissions \ SubsOf(as)
                     /\ SubmissionAttachments' = SubmissionAttachments \ AttsOf(SubsOf(as))
       /\ \A id \in 1..MaxSubmissions :
             (delete_submission(id) /\ SubmissionExists(id)) =>
                 LET ss == {x \in Submissions : x.id = id}
                 IN  /\ resp'.kind = "ok"
                     /\ Submissions' = Submissions \ ss
                     /\ SubmissionAttachments' = SubmissionAttachments \ AttsOf(ss)]_vars

\* C8 witness: a class that had an assignment with a submission and its
\* attachment has just been deleted while the other class keeps its rows.
C8_Witness ==
    /\ resp.op = "delete_class" /\ resp.kind = "ok"
    /\ Cardinality(Classes) = 1
    /\ Enrollments # {}
    /\ TeacherClass # {}
    /\ Assignments = {} /\ Submissions = {} /\ SubmissionAttachments = {}

\* C9: delete_user(u) is refused with ReferentialBlock whenever an Announcements
\* row has author_id = u; when none has, it succeeds for an existing u and
\* leaves no Enrollments, TeacherClass or Submissions row that references u.
C9_AuthorBlocksDelete ==
    [][\A u \in UserIds :
          (delete_user(u) /\ UserExists(u)) =>
              IF \E x \in Announcements : x.author_id = u
              THEN resp'.kind = "ReferentialBlock" /\ Users' = Users
              ELSE /\ resp'.kind = "ok"
                   /\ u \notin Ids(Users')
                   /\ \A x \in Enrollments' : x.user_id # u
                   /\ \A x \in TeacherClass' : x.teacher_id # u
                   /\ \A x \in Submissions' : x.student_id # u]_vars

\* C9 witness: the deletion of an announcement's author has just been refused.
C9_Witness ==
    /\ resp = Resp("delete_user", "ReferentialBlock")
    /\ Announcements # {}

\* C10: a rejected mutation leaves every table as it was.
C10_RejectionChangesNothing ==
    [][resp'.kind \in Rejections => store' = store]_vars

\* C10 witness: a delete_user has just been refused while its user still has
\* TeacherClass rows.
C10_Witness ==
    /\ resp = Resp("delete_user", "ReferentialBlock")
    /\ \E x \in Announcements, tc \in TeacherClass : tc.teacher_id = x.author_id

\* the number of rows in the store
StoreSize ==
    Cardinality(Users) + Cardinality(Classes) + Cardinality(TeacherClass)
    + Cardinality(Enrollments) + Cardinality(Assignments) + Cardinality(Submissions)
    + Cardinality(SubmissionAttachments) + Cardinality(Announcements)

DeleteOps == {"delete_user", "delete_class", "delete_assignment", "delete_submission",
              "crud_delete_user", "crud_delete_class", "crud_delete_assignment",
              "crud_delete_submission"}

\* C11: the count a successful delete_user, delete_class, delete_assignment or
\* delete_submission reports is the total number of rows the call removed,
\* the target row and every row removed by cascade.
C11_RowcountCountsCascade ==
    [][(resp'.op \in DeleteOps /\ resp'.kind = "ok" /\ StoreSize' < StoreSize) =>
           resp'.rowcount = StoreSize - StoreSize']_vars

SubmissionRow(T, id) == CHOOSE x \in T : x.id = id

\* C13: a submission created without a grade has grade NULL (pending); after
\* update_submission(id, grade=g) or grade_submission(id, g) on an existing
\* row, the row read back has grade = g, is no longer pending, and keeps its
\* attempt_number, assignment_id and student_id; no other row changes.
C13_GradeReadBack ==
    [][/\ \A p \in 1..SubProcs :
             (pc[p] = "insert" /\ create_submission_insert(p, NULL, NULL)
              /\ call'[p].kind = "ok") =>
                 \A x \in Submissions' \ Submissions : x.grade = NULL
       /\ \A id \in 1..SubMaxSubmissions, g \in Grades \ {NULL} :
             (SubmissionExists(id)
              /\ (update_submission(id, TRUE, g, FALSE, NULL) \/ grade_submission(id, g, NULL))) =>
                 LET old == SubmissionRow(Submissions, id)
                     new == SubmissionRow(Submissions', id)
                 IN  /\ resp'.kind = "ok"
                     /\ id \in Ids(Submissions')
                     /\ new.grade = g /\ new.grade # NULL
                     /\ new.attempt_number = old.attempt_number
                     /\ new.assignment_id = old.assignment_id
                     /\ new.student_id = old.student_id
                     /\ Submissions' \ {new} = Submissions \ {old}]_vars

\* C13 witness: a pending submission has just been graded through
\* update_submission while another submission is still pending.
C13_Witness ==
    /\ resp.op = "update_submission" /\ resp.kind = "ok"
    /\ \E x, y \in Submissions : x.grade = "90" /\ y.grade = NULL

\* C14: delete_user, delete_class, delete_assignment, delete_submission and
\* the update of a submission, through either entry point, called with an id
\* that names no row, fail with NotFound and leave every table as it was.
C14_MissingIdIsNotFound ==
    [][/\ \A u \in UserIds :
             (~UserExists(u) /\ (delete_user(u) \/ crud_delete_user(u))) =>
                 resp'.kind = "NotFound" /\ store' = store
       /\ \A c \in ClassIds :
             (~ClassExists(c) /\ (delete_class(c) \/ crud_delete_class(c))) =>
                 resp'.kind = "NotFound" /\ store' = store
       /\ \A a \in AssignmentIds :
             (~AssignmentExists(a) /\ (delete_assignment(a) \/ crud_delete_assignment(a))) =>
                 resp'.kind = "NotFound" /\ store' = store
       /\ \A id \in 1..SubMaxSubmissions :
             (~SubmissionExists(id)
              /\ (\/ delete_submission(id) \/ crud_delete_submission(id)
                  \/ \E g \in Grades \ {NULL} :
                        update_submission(id, TRUE, g, FALSE, NULL) \/ grade_submission(id, g, NULL))) =>
                 resp'.kind = "NotFound" /\ store' = store]_vars

\* the outcome the validation order existence -> role -> prerequisite gives a
\* Submissions insert that violates a rule
FirstSubmissionViolation(a, s, kind) ==
    /\ (~UserExists(s) \/ ~AssignmentExists(a)) => kind = "ForeignKey"
    /\ (/\ UserExists(s) /\ AssignmentExists(a)
        /\ RoleOf(s) # "student" /\ ~EnrolledFor(a, s)) => kind = "RoleViolation"

\* C15: a request that violates several rules is refused with the first
\* violation in the order existence, role, prerequisite: a create_submission
\* (either entry point) naming a missing student or assignment is reported as
\* a missing row, one for an existing non-student who is not enrolled as
\* RoleViolation, and an enroll / teacherassigne naming a missing user or
\* class as a missing row.
C15_ValidationOrder ==
    [][/\ \A p \in Procs :
             (pc[p] = "insert" /\ pc'[p] = "done") =>
                 FirstSubmissionViolation(call[p].assignment_id, call[p].student_id,
                                          call'[p].kind)
       /\ \A a \in AssignmentIds, s \in UserIds :
             crud_create_submission(a, s, 1, NULL, NULL) =>
                 FirstSubmissionViolation(a, s, resp'.kind)
       /\ \A u \in UserIds, c \in ClassIds :
             ((~UserExists(u) \/ ~ClassExists(c)) /\ (enroll(u, c) \/ teacherassigne(u, c))) =>
                 resp'.kind = "ForeignKey"]_vars

\* C16: every Enrollments row's user is a student, every TeacherClass row's
\* teacher is a teacher and every Submissions row's student is a student, after
\* any sequence of user creation, user update (role included), enrollment and
\* teacher assignment.
C16_RolesMatchRows ==
    /\ \A e \in Enrollments : RoleOf(e.user_id) = "student"
    /\ \A tc \in TeacherClass : RoleOf(tc.teacher_id) = "teacher"
    /\ \A x \in Submissions : RoleOf(x.student_id) = "student"

\* C17: every Submissions row's student has an Enrollments row in the class
\* that owns the row's assignment, also after an unenroll.
C17_SubmittersEnrolled ==
    \A x \in Submissions : EnrolledFor(x.assignment_id, x.student_id)

\* C18: every Announcements row's (author_id, class_id) has a TeacherClass
\* row, also after a TeacherClass row has been removed.
C18_AuthorsAssigned ==
    \A x \in Announcements :
        [teacher_id |-> x.author_id, class_id |-> x.class_id] \in TeacherClass

\* C19: with no concurrent caller for the pair, an accepted create_submission
\* (either entry point) stores attempt_number = 1 + the largest attempt_number
\* stored for the pair (1 when there is none), whatever attempt_number the
\* caller supplied.
C19_AttemptIsMaxPlusOne ==
    [][/\ \A p \in 1..SubProcs :
             (/\ pc[p] = "insert" /\ pc'[p] = "done" /\ call'[p].kind = "ok"
              /\ call[p].last_attempt =
                     SetMax(AttemptsOf(call[p].assignment_id, call[p].student_id))) =>
                 \A x \in Submissions' \ Submissions :
                     x.attempt_number =
                         SetMax(AttemptsOf(call[p].assignment_id, call[p].student_id)) + 1
       /\ \A s \in UserIds, n \in 1..MaxAttempt :
             (/\ \A p \in 1..SubProcs : pc[p] # "insert"
              /\ crud_create_submission(1, s, n, NULL, NULL)
              /\ resp'.kind = "ok") =>
                 \A x \in Submissions' \ Submissions :
                     x.attempt_number = SetMax(AttemptsOf(1, s)) + 1]_vars

\* C20: a create_submission of an enrolled student whose pair no other caller
\* names is accepted under
\* every interleaving with the callers of other pairs, and stores the
\* attempt_number it would store alone (1, the pairs start with no submission).
C20_OtherPairsDoNotConflict ==
    \A p \in Procs :
        (/\ pc[p] = "done"
         /\ EnrolledFor(call[p].assignment_id, call[p].student_id)
         /\ CallersOf(call[p].assignment_id, call[p].student_id) = {p}) =>
            /\ call[p].kind = "ok"
            /\ AttemptsOf(call[p].assignment_id, call[p].student_id) = {1}

\* C20 witness: a caller was accepted as the only one of its pair after another
\* pair's row was stored, while a third caller is between its SELECT and its
\* INSERT.
C20_Witness ==
    \E p, q, r \in Procs :
        /\ pc[p] = "done" /\ call[p].kind = "ok"
        /\ pc[q] = "done" /\ call[q].kind = "ok"
        /\ call[q].student_id # call[p].student_id
        /\ CallersOf(call[p].assignment_id, call[p].student_id) = {p}
        /\ pc[r] = "insert" /\ call[r].student_id = call[q].student_id
        /\ Cardinality(Submissions) = 2

\* C21: updating a submission's grade without supplying feedback, through
\* update_submission or through grade_submission (feedback left at its
\* default), leaves the stored feedback and every other row as they were.
C21_PartialUpdateFrame ==
    [][\A id \in 1..SubMaxSubmissions, g \in Grades \ {NULL} :
          (SubmissionExists(id)
           /\ (update_submission(id, TRUE, g, FALSE, NULL) \/ grade_submission(id, g, NULL))) =>
              /\ SubmissionRow(Submissions', id).feedback =
                     SubmissionRow(Submissions, id).feedback
              /\ Submissions' \ {SubmissionRow(Submissions', id)} =
                     Submissions \ {SubmissionRow(Submissions, id)}]_vars

\* C22: every foreign key resolves: each TeacherClass, Enrollments,
\* Assignments, Submissions, SubmissionAttachments and Announcements row
\* references rows that exist, after any sequence of creates and deletes.
C22_ForeignKeysResolve ==
    /\ \A x \in TeacherClass : UserExists(x.teacher_id) /\ ClassExists(x.class_id)
    /\ \A x \in Enrollments : UserExists(x.user_id) /\ ClassExists(x.class_id)
    /\ \A x \in Assignments : ClassExists(x.class_id)
    /\ \A x \in Submissions : AssignmentExists(x.assignment_id) /\ UserExists(x.student_id)
    /\ \A x \in SubmissionAttachments : SubmissionExists(x.submission_id)
    /\ \A x \in Announcements : ClassExists(x.class_id) /\ UserExists(x.author_id)

\* C22 witness: a user has just been deleted while the other user keeps an
\* enrollment and a submission with its attachment.
C22_Witness ==
    /\ resp.op = "delete_user" /\ resp.kind = "ok"
    /\ Cardinality(Users) = 1
    /\ Enrollments # {} /\ Submissions # {} /\ SubmissionAttachments # {}

\* C23: delete_class(c) of an existing class succeeds whatever announcements
\* the class has and removes exactly the Announcements rows of c, so a user
\* whose announcements all belonged to c authors none afterwards; and
\* delete_user of an existing user who authors no announcement succeeds.
C23_ClassDeleteFreesAuthor ==
    [][/\ \A c \in ClassIds :
             (ClassExists(c) /\ delete_class(c)) =>
                 /\ resp'.kind = "ok"
                 /\ Announcements' = {x \in Announcements : x.class_id # c}
                 /\ \A u \in UserIds :
                        (\A x \in Announcements : x.author_id = u => x.class_id = c) =>
                            ~AuthorRestrict(u)'
       /\ \A u \in UserIds :
             (UserExists(u) /\ ~AuthorRestrict(u) /\ delete_user(u)) =>
                 resp'.kind = "ok" /\ u \notin Ids(Users')]_vars

\* C23 witness: a class has just been deleted, no announcement is left, and
\* the teacher of the other class, free of announcements, is still stored.
C23_Witness ==
    /\ resp.op = "delete_class" /\ resp.kind = "ok"
    /\ Announcements = {}
    /\ \E tc \in TeacherClass : RoleOf(tc.teacher_id) = "teacher"

====
